---------------------------- MODULE Spec2Model ----------------------------
(***************************************************************************)
(* A model of the fraud-scoring service: the artifact loader and the       *)
(* scoring endpoints of src/api/routers/ml.py, the risk banding of         *)
(* risk_category, the per-request database session of src/db/database.py   *)
(* with the worker endpoints that use it, and the health endpoints of      *)
(* src/api/routers/health.py.                                              *)
(*                                                                         *)
(* The endpoints are `async def` coroutines that never await: on the       *)
(* event loop each handler body runs to completion before another handler  *)
(* starts, so one handler is one action.  What lies outside the            *)
(* repository (the files on disk, the unpickled scaler and classifier, the *)
(* database engine) is an input of the action that uses it.                *)
(***************************************************************************)
EXTENDS Integers, Sequences, FiniteSets, TLC

\* ------------------------------------------------------------------ bounds

\* Calls of load_fraud_models in one run (the import-time load included).
MaxLoads == 2

\* Longest batch of transactions in one request.
MaxBatch == 2

\* Probabilities tried on each side of a threshold, in units of 1 / ProbScale.
ProbWindow == 6

\* Rows the Worker table is given in one run (the ids the store hands out).
MaxWorkers == 2

\* Readings of datetime.utcnow() a health response can carry.
MaxClock == 2

\* ------------------------------------------------------------- ml.py: data

\* Python's None; every artifact is a record, so that the two compare.
None == [ none |-> TRUE ]

\* An unpickled classifier or scaler: the load call that read it.
Artifact(gen) == [ load |-> gen ]

\* The three artifact files of load_fraud_models.
model_path == "fraud_model.pkl"

scaler_path == "scaler.pkl"

columns_path == "model_columns.pkl"

Files == {model_path, scaler_path, columns_path}

\* What the loader can find for one file: no file, a file joblib.load raises
\* on, a file that deserializes.
FileStates == {"missing", "corrupt", "ok"}

\* class Transaction: the field names, in declaration order.
TransactionFields ==
  << "transaction_id", "customer_id", "amount", "is_weekend",
     "night_transaction", "card_not_present", "account_age_days",
     "new_merchant", "international_txn", "impossible_travel",
     "txn_velocity_5min", "new_device_high_amount", "blacklisted_ip",
     "multiple_cards_same_device", "tx_hour", "tx_day", "tx_month" >>

InSeq(x, s) == \E i \in 1..Len(s) : s[i] = x

Range(s) == { s[i] : i \in 1..Len(s) }

\* A validated Transaction: every field present.
Transaction(tid, cid, amt) ==
  [f \in Range(TransactionFields) |->
     CASE f = "transaction_id" -> tid
       [] f = "customer_id" -> cid
       [] f = "amount" -> amt
       [] OTHER -> 0]

TransactionIds == {1, 2}

Transactions == { Transaction(t, 7, 50) : t \in TransactionIds }

\* Column lists a model_columns.pkl can hold: a selection of the fields in
\* an order of its own, and a list naming columns no Transaction has.
ColumnLists ==
  { << "amount", "transaction_id", "tx_hour" >>,
    << "merchant_risk", "amount", "device_score" >> }

\* ------------------------------------------------- config.py: the settings

\* Probabilities and thresholds are counted in units of 1 / ProbScale: one
\* decimal more than round(prob, 4) keeps.
RoundDigits == 4

RoundScale == 10 ^ RoundDigits

ProbScale == 10 * RoundScale

Prob(tenths) == (tenths * ProbScale) \div 10

\* Settings.FRAUD_RISK_LOW_THRESHOLD and FRAUD_RISK_HIGH_THRESHOLD defaults.
FRAUD_RISK_LOW_THRESHOLD == Prob(3)

FRAUD_RISK_HIGH_THRESHOLD == Prob(7)

FRAUD_RISK_NORMAL_LABEL == "Normal / No Risk"

FRAUD_RISK_MODERATE_LABEL == "Moderate Risk (Verify)"

FRAUD_RISK_HIGH_LABEL == "High Risk (Avoid)"

DefaultSettings ==
  [ low |-> FRAUD_RISK_LOW_THRESHOLD, high |-> FRAUD_RISK_HIGH_THRESHOLD ]

\* ------------------------------------------------------------------- state

VARIABLES
  started,        \* the module has been imported (load_fraud_models ran once)
  model,          \* global model: None, or Artifact(load call)
  scaler,         \* global scaler: None, or Artifact(load call)
  model_columns,  \* global model_columns: None, or [load, cols]
  loads,          \* calls of load_fraud_models so far
  printed,        \* what the last load_fraud_models printed
  settings,       \* the risk thresholds in force
  req,            \* the request the last handler served
  resp,           \* its response
  calls,          \* the scaler and classifier calls that handler made
  table,          \* the committed rows of the Worker table
  next_id,        \* the identity value the table gives its next row
  sessions,       \* sessions opened by SessionLocal() and not closed
  dblog           \* what the last store request did with its session

mlvars == << started, model, scaler, model_columns, loads, printed >>

dbvars == << table, next_id, sessions, dblog >>

vars == << started, model, scaler, model_columns, loads, printed, settings,
           req, resp, calls, table, next_id, sessions, dblog >>

\* The globals of ml.py as one value.
Globals ==
  [ model |-> model, scaler |-> scaler, model_columns |-> model_columns,
    printed |-> printed ]


\* ------------------------------------------------ ml.py: load_fraud_models

\* load_fraud_models on globals g, with the files in state fs, as load call
\* number gen; cols is what model_columns.pkl holds.  The three globals are
\* assigned one by one, each right after its joblib.load returns; a raise
\* leaves the function through `except Exception`, which only prints.
load_fraud_models(g, fs, gen, cols) ==
  IF fs[model_path] /= "missing" /\ fs[scaler_path] /= "missing"
       /\ fs[columns_path] /= "missing"
  THEN IF fs[model_path] = "corrupt"
       THEN [ g EXCEPT !.printed = "error" ]
       ELSE LET g1 == [ g EXCEPT !.model = Artifact(gen) ] IN
            IF fs[scaler_path] = "corrupt"
            THEN [ g1 EXCEPT !.printed = "error" ]
            ELSE LET g2 == [ g1 EXCEPT !.scaler = Artifact(gen) ] IN
                 IF fs[columns_path] = "corrupt"
                 THEN [ g2 EXCEPT !.printed = "error" ]
                 ELSE [ g2 EXCEPT
                          !.model_columns = [ load |-> gen, cols |-> cols ],
                          !.printed = "loaded" ]
  ELSE [ g EXCEPT !.printed = "not_found" ]

\* `model is not None and scaler is not None and model_columns is not None`
ModelsLoaded(g) ==
  g.model /= None /\ g.scaler /= None /\ g.model_columns /= None

\* ---------------------------------------------------- ml.py: risk_category

\* Faulty variant: the bands closed at the top instead of at the bottom.
risk_category_Exclusive(prob) ==
  IF prob > settings.high THEN FRAUD_RISK_HIGH_LABEL
  ELSE IF prob > settings.low THEN FRAUD_RISK_MODERATE_LABEL
  ELSE FRAUD_RISK_NORMAL_LABEL

risk_category(prob) ==
  IF prob >= settings.high THEN FRAUD_RISK_HIGH_LABEL
  ELSE IF prob >= settings.low THEN FRAUD_RISK_MODERATE_LABEL
  ELSE FRAUD_RISK_NORMAL_LABEL

\* round(prob, 4): to the nearest multiple of ProbScale / RoundScale, a tie
\* going to the even neighbour.
round4(prob) ==
  LET unit == ProbScale \div RoundScale
      q == prob \div unit
      r == prob % unit
  IN  IF 2 * r < unit THEN q * unit
      ELSE IF 2 * r > unit THEN (q + 1) * unit
      ELSE IF q % 2 = 0 THEN q * unit ELSE (q + 1) * unit

\* ------------------------------------- ml.py: _predict_single_transaction

\* What the unpickled scaler and classifier do with one row: the scaler
\* returns or raises, predict returns a class or raises, predict_proba
\* returns the probability of class 1.
Outcomes ==
  { [ scaler |-> "raises", predict |-> "raises", pred |-> 0, prob |-> 0 ],
    [ scaler |-> "ok", predict |-> "raises", pred |-> 0, prob |-> 0 ],
    [ scaler |-> "ok", predict |-> "ok", pred |-> 0,
      prob |-> Prob(1) + 2 * RoundScale ],
    [ scaler |-> "ok", predict |-> "ok", pred |-> 1,
      prob |-> Prob(9) + 3 * RoundScale ] }

\* pd.DataFrame([txn.dict()]): one row, the columns in field order.
DataFrame(txn) == [ columns |-> TransactionFields, row |-> txn ]

\* [col for col in model_columns if col not in df_model.columns]
missing_cols(cols, df) ==
  SelectSeq(cols, LAMBDA col : ~ InSeq(col, df.columns))

\* Faulty variant: the selected columns in the frame's own order.
SelectColumnsFrameOrder(df, cols) ==
  LET kept == SelectSeq(df.columns, LAMBDA col : InSeq(col, cols)) IN
  [ i \in 1..Len(kept) |-> df.row[kept[i]] ]

\* df_model[model_columns]: the row's values in the order of the list.
SelectColumns(df, cols) == [ i \in 1..Len(cols) |-> df.row[cols[i]] ]

\* ValueError(f"Missing required columns: {missing_cols}")
MissingColumnsError(missing) ==
  [ error |-> "Missing required columns", columns |-> missing ]

ArtifactError(what) == [ error |-> what, columns |-> << >> ]

\* The helper's outcome: it returns value, or raises value; calls are the
\* artifact calls it made, each with the load its artifact came from.
predict_single_transaction(g, txn, out) ==
  LET df == DataFrame(txn)
      txn_id == df.row["transaction_id"]
      cust_id == df.row["customer_id"]
      cols == g.model_columns.cols
      missing == missing_cols(cols, df)
      transform == [ fn |-> "scaler.transform", by |-> g.scaler.load,
                     columns_by |-> g.model_columns.load,
                     arg |-> SelectColumns(df, cols) ]
      predict == [ fn |-> "model.predict", by |-> g.model.load,
                   columns_by |-> g.model_columns.load, arg |-> << >> ]
      proba == [ predict EXCEPT !.fn = "model.predict_proba" ]
  IN  IF missing /= << >>
      THEN [ raised |-> TRUE, value |-> MissingColumnsError(missing),
             calls |-> << >> ]
      ELSE IF out.scaler = "raises"
      THEN [ raised |-> TRUE, value |-> ArtifactError("scaler.transform"),
             calls |-> << transform >> ]
      ELSE IF out.predict = "raises"
      THEN [ raised |-> TRUE, value |-> ArtifactError("model.predict"),
             calls |-> << transform, predict >> ]
      ELSE [ raised |-> FALSE,
             value |-> [ transaction_id |-> txn_id,
                         customer_id |-> cust_id,
                         fraud_prediction |-> out.pred,
                         fraud_probability |-> round4(out.prob),
                         risk_level |-> risk_category(out.prob) ],
             calls |-> << transform, predict, proba >> ]

\* ---------------------------------------------------- ml.py: predict_fraud

HTTP_200_OK == 200

HTTP_400_BAD_REQUEST == 400

HTTP_500_INTERNAL_SERVER_ERROR == 500

HTTP_503_SERVICE_UNAVAILABLE == 503

Response(status, body, made) ==
  [ status |-> status, body |-> body, calls |-> made ]

ModelsNotLoaded ==
  Response(HTTP_503_SERVICE_UNAVAILABLE,
           "Fraud detection models not loaded", << >>)

predict_fraud(g, txn, out) ==
  IF g.model = None \/ g.scaler = None \/ g.model_columns = None
  THEN ModelsNotLoaded
  ELSE LET r == predict_single_transaction(g, txn, out) IN
       IF r.raised
       THEN Response(HTTP_500_INTERNAL_SERVER_ERROR,
                     [ detail |-> "Error making prediction", cause |-> r.value ],
                     r.calls)
       ELSE Response(HTTP_200_OK, r.value, r.calls)

\* ---------------------------------------------- ml.py: predict_fraud_batch

EmptyTally ==
  [ results |-> << >>, errors |-> << >>, successful_predictions |-> 0,
    failed_predictions |-> 0, calls |-> << >> ]

\* Faulty variant: a failure is recorded but not counted.
BatchStepUncounted(acc, g, i, txn, out) ==
  LET r == predict_single_transaction(g, txn, out) IN
  IF r.raised
  THEN [ acc EXCEPT
           !.errors = Append(@, [ transaction_index |-> i,
                                  transaction_id |-> txn["transaction_id"],
                                  error |-> r.value ]),
           !.calls = @ \o r.calls ]
  ELSE [ acc EXCEPT
           !.results = Append(@, r.value),
           !.successful_predictions = @ + 1,
           !.calls = @ \o r.calls ]

\* One turn of `for i, txn in enumerate(...)`; i counts from 0.
BatchStep(acc, g, i, txn, out) ==
  LET r == predict_single_transaction(g, txn, out) IN
  IF r.raised
  THEN [ acc EXCEPT
           !.failed_predictions = @ + 1,
           !.errors = Append(@, [ transaction_index |-> i,
                                  transaction_id |-> txn["transaction_id"],
                                  error |-> r.value ]),
           !.calls = @ \o r.calls ]
  ELSE [ acc EXCEPT
           !.results = Append(@, r.value),
           !.successful_predictions = @ + 1,
           !.calls = @ \o r.calls ]

RECURSIVE BatchLoopAborting(_, _, _, _)
\* Faulty variant: the first failure ends the loop.
BatchLoopAborting(g, txns, outs, n) ==
  IF n = 0 THEN EmptyTally
  ELSE LET acc == BatchLoopAborting(g, txns, outs, n - 1) IN
       IF acc.failed_predictions > 0 THEN acc
       ELSE BatchStep(acc, g, n - 1, txns[n], outs[n])

RECURSIVE BatchLoop(_, _, _, _)
\* The loop over the first n transactions.
BatchLoop(g, txns, outs, n) ==
  IF n = 0 THEN EmptyTally
  ELSE BatchStep(BatchLoop(g, txns, outs, n - 1), g, n - 1, txns[n], outs[n])

BatchResponse(g, txns, outs) ==
  LET t == BatchLoop(g, txns, outs, Len(txns)) IN
  Response(HTTP_200_OK,
           [ total_transactions |-> Len(txns),
             successful_predictions |-> t.successful_predictions,
             failed_predictions |-> t.failed_predictions,
             results |-> t.results,
             errors |-> t.errors ],
           t.calls)

EmptyBatch ==
  Response(HTTP_400_BAD_REQUEST,
           "No transactions provided for batch processing.", << >>)

\* Faulty variant: the input is validated before the artifacts are looked at.
predict_fraud_batch_EmptyFirst(g, txns, outs) ==
  IF txns = << >> THEN EmptyBatch
  ELSE IF g.model = None \/ g.scaler = None \/ g.model_columns = None
  THEN ModelsNotLoaded
  ELSE BatchResponse(g, txns, outs)

\* Faulty variant: an empty list goes through the loop like any other.
predict_fraud_batch_NoEmptyCheck(g, txns, outs) ==
  IF g.model = None \/ g.scaler = None \/ g.model_columns = None
  THEN ModelsNotLoaded
  ELSE BatchResponse(g, txns, outs)

predict_fraud_batch(g, txns, outs) ==
  IF g.model = None \/ g.scaler = None \/ g.model_columns = None
  THEN ModelsNotLoaded
  ELSE IF txns = << >> THEN EmptyBatch
  ELSE BatchResponse(g, txns, outs)

\* --------------------------------------------------- ml.py: reload_models

\* The body after load_fraud_models returned: g is the globals it left.
reload_models(g) ==
  Response(HTTP_200_OK,
           [ success |-> ModelsLoaded(g),
             message |-> IF ModelsLoaded(g)
                         THEN "Models reloaded successfully"
                         ELSE "Failed to load models" ],
           << >>)

\* ------------------------------------------------------- ml.py: the actions

NoRequest == [ op |-> "none" ]

\* The store before any request: no row, no session.
EmptyStore ==
  /\ table = {}
  /\ next_id = 1
  /\ sessions = 0
  /\ dblog = << >>

\* What a batch is made of: a transaction with what the artifacts do with
\* its row.  Both ids occur with a success and with a failure, and every
\* outcome occurs.
BatchItems ==
  { [ txn |-> Transaction(1, 7, 50),
      out |-> [ scaler |-> "ok", predict |-> "ok", pred |-> 0,
                prob |-> Prob(1) + 2 * RoundScale ] ],
    [ txn |-> Transaction(2, 7, 50),
      out |-> [ scaler |-> "ok", predict |-> "ok", pred |-> 1,
                prob |-> Prob(9) + 3 * RoundScale ] ],
    [ txn |-> Transaction(1, 7, 50),
      out |-> [ scaler |-> "raises", predict |-> "raises", pred |-> 0,
                prob |-> 0 ] ],
    [ txn |-> Transaction(2, 7, 50),
      out |-> [ scaler |-> "ok", predict |-> "raises", pred |-> 0,
                prob |-> 0 ] ] }

BatchInputs == UNION { [ 1..n -> BatchItems ] : n \in 0..MaxBatch }

InitML ==
  /\ started = FALSE
  /\ model = None
  /\ scaler = None
  /\ model_columns = None
  /\ loads = 0
  /\ printed = ""
  /\ settings = DefaultSettings
  /\ req = NoRequest
  /\ resp = NoRequest
  /\ calls = << >>
  /\ EmptyStore

\* The file states a load can meet, and for each what model_columns.pkl
\* holds (read only when all three files deserialize).
FileSystems == [ Files -> FileStates ]

ColumnsOn(fs) ==
  IF \A f \in Files : fs[f] = "ok" THEN ColumnLists ELSE { << >> }

\* The globals after load call loads + 1.
Load(fs, cols) ==
  LET g == load_fraud_models(Globals, fs, loads + 1, cols) IN
  /\ model' = g.model
  /\ scaler' = g.scaler
  /\ model_columns' = g.model_columns
  /\ printed' = g.printed
  /\ loads' = loads + 1

\* `load_fraud_models()` at module import, before any request is served.
ModuleImport ==
  /\ ~ started
  /\ \E fs \in FileSystems : \E cols \in ColumnsOn(fs) :
       Load(fs, cols)
  /\ started' = TRUE
  /\ UNCHANGED << settings, req, resp, calls >>
  /\ UNCHANGED dbvars

\* POST /reload-models
ReloadModels ==
  /\ started
  /\ loads < MaxLoads
  /\ \E fs \in FileSystems : \E cols \in ColumnsOn(fs) :
       /\ Load(fs, cols)
       /\ req' = [ op |-> "reload", txns |-> << >>, outs |-> << >> ]
       /\ LET after == load_fraud_models(Globals, fs, loads + 1, cols)
              r == reload_models(after)
          IN  /\ resp' = [ status |-> r.status, body |-> r.body ]
              /\ calls' = r.calls
  /\ UNCHANGED << started, settings >>
  /\ UNCHANGED dbvars

\* POST /predict/transaction
PredictFraud ==
  /\ started
  /\ \E txn \in Transactions, out \in Outcomes :
       LET r == predict_fraud(Globals, txn, out) IN
       /\ req' = [ op |-> "score", txns |-> << txn >>, outs |-> << out >> ]
       /\ resp' = [ status |-> r.status, body |-> r.body ]
       /\ calls' = r.calls
  /\ UNCHANGED << started, model, scaler, model_columns, loads, printed,
                  settings >>
  /\ UNCHANGED dbvars

\* POST /predict/transactions/batch
PredictFraudBatch ==
  /\ started
  /\ \E items \in BatchInputs :
       LET txns == [ i \in 1..Len(items) |-> items[i].txn ]
           outs == [ i \in 1..Len(items) |-> items[i].out ]
           r == predict_fraud_batch(Globals, txns, outs)
       IN  /\ req' = [ op |-> "batch", txns |-> txns, outs |-> outs ]
           /\ resp' = [ status |-> r.status, body |-> r.body ]
           /\ calls' = r.calls
  /\ UNCHANGED << started, model, scaler, model_columns, loads, printed,
                  settings >>
  /\ UNCHANGED dbvars

NextML ==
  \/ ModuleImport
  \/ ReloadModels
  \/ PredictFraud
  \/ PredictFraudBatch

SpecML == InitML /\ [][NextML]_vars

\* ------------------------------------- scoring over the probability range

\* Thresholds a deployment can configure (FRAUD_RISK_LOW_THRESHOLD and
\* FRAUD_RISK_HIGH_THRESHOLD are read from the environment), low < high.
ThresholdChoices == { Prob(3), Prob(3) + 1, Prob(5), Prob(7), Prob(10) }

SettingsChoices ==
  { st \in [ low : ThresholdChoices, high : ThresholdChoices ] :
      st.low < st.high }

\* The probabilities predict_proba is made to return: the ends of [0, 1] and
\* every value within ProbWindow units of a threshold.
ProbInputs ==
  ( { 0, ProbScale }
      \cup ((settings.low - ProbWindow)..(settings.low + ProbWindow))
      \cup ((settings.high - ProbWindow)..(settings.high + ProbWindow)) )
    \cap (0..ProbScale)

\* The service after an import that loaded all three artifacts, under any
\* of the threshold settings.
InitRisk ==
  /\ started = TRUE
  /\ model = Artifact(1)
  /\ scaler = Artifact(1)
  /\ model_columns \in { [ load |-> 1, cols |-> c ] :
                           c \in { x \in ColumnLists :
                                     \A i \in 1..Len(x) :
                                       InSeq(x[i], TransactionFields) } }
  /\ loads = 1
  /\ printed = "loaded"
  /\ settings \in SettingsChoices
  /\ req = NoRequest
  /\ resp = NoRequest
  /\ calls = << >>
  /\ EmptyStore

\* POST /predict/transaction, the classifier returning any class and any
\* of the probabilities.
PredictFraudAt ==
  /\ started
  /\ \E txn \in Transactions, pred \in { 0, 1 }, p \in ProbInputs :
       LET out == [ scaler |-> "ok", predict |-> "ok", pred |-> pred,
                    prob |-> p ]
           r == predict_fraud(Globals, txn, out)
       IN  /\ req' = [ op |-> "score", txns |-> << txn >>, outs |-> << out >> ]
           /\ resp' = [ status |-> r.status, body |-> r.body ]
           /\ calls' = r.calls
  /\ UNCHANGED << started, model, scaler, model_columns, loads, printed,
                  settings >>
  /\ UNCHANGED dbvars

NextRisk == PredictFraudAt

SpecRisk == InitRisk /\ [][NextRisk]_vars

\* ------------------------------------------------------ models.py: Worker

\* The columns a request can set; WORKER_ID is the autoincrement key.
WorkerFields ==
  { "FIRST_NAME", "LAST_NAME", "SALARY", "JOINING_DATE", "DEPARTMENT" }

StringFields == { "FIRST_NAME", "LAST_NAME", "DEPARTMENT" }

\* Field(..., min_length=1, max_length=255)
MinStringLength == 1

MaxStringLength == 255

\* Faulty variant: SALARY declared ge=0.
FieldValidSalaryZero(f, v) ==
  IF f \in StringFields
  THEN Len(v) >= MinStringLength /\ Len(v) <= MaxStringLength
  ELSE IF f = "SALARY" THEN v >= 0
  ELSE TRUE

\* Field(..., min_length=1, max_length=255) on the strings, Field(..., gt=0)
\* on SALARY.
FieldValid(f, v) ==
  IF f \in StringFields
  THEN Len(v) >= MinStringLength /\ Len(v) <= MaxStringLength
  ELSE IF f = "SALARY" THEN v > 0
  ELSE TRUE

\* WorkerCreate: all five fields, each valid.
WorkerCreateValid(worker) ==
  \A f \in DOMAIN worker : FieldValid(f, worker[f])

\* WorkerUpdate: every field optional; a field that is given and not null
\* must be valid.
WorkerUpdateValid(worker) ==
  \A f \in DOMAIN worker.values : FieldValid(f, worker.values[f])

WorkerBody(first, salary, dept) ==
  [ FIRST_NAME |-> first, LAST_NAME |-> "Lee", SALARY |-> salary,
    JOINING_DATE |-> "2024-01-15", DEPARTMENT |-> dept ]

\* A body that carries a WORKER_ID of its own, a key WorkerCreate does not
\* declare.
WithWorkerId(worker, worker_id) ==
  [ f \in DOMAIN worker \cup { "WORKER_ID" } |->
      IF f = "WORKER_ID" THEN worker_id ELSE worker[f] ]

\* A string of MaxStringLength characters, and one a character longer.
LongestString ==
  LET s15 == "abcdefghijklmno"
      s60 == s15 \o s15 \o s15 \o s15
  IN  s60 \o s60 \o s60 \o s60 \o s15

TooLongString == LongestString \o "p"

\* Bodies of POST /workers: two valid ones, a salary of 0, an empty name;
\* a valid one with a name of the greatest length, a department that is too
\* long, and a valid one that names an id.
CreateBodies ==
  { WorkerBody("Ann", 50000, "HR"), WorkerBody("Ann", 50000, "IT"),
    WorkerBody("Ann", 0, "HR"), WorkerBody("", 50000, "IT"),
    WorkerBody(LongestString, 50000, "HR"),
    WorkerBody("Ann", 50000, TooLongString),
    WithWorkerId(WorkerBody("Ann", 50000, "HR"), 1) }

\* Bodies of PUT /workers/{id}: the fields given with a value, and the
\* fields given as null.
UpdateBodies ==
  { [ values |-> [ DEPARTMENT |-> "IT" ], nulls |-> {} ],
    [ values |-> [ SALARY |-> 0 ], nulls |-> {} ],
    [ values |-> [ SALARY |-> 60000 ], nulls |-> { "DEPARTMENT" } ] }

\* The row the table stores for a body.
Row(worker_id, worker) ==
  [ f \in WorkerFields \cup { "WORKER_ID" } |->
      IF f = "WORKER_ID" THEN worker_id ELSE worker[f] ]

\* ------------------------------------------- workers.py: the handler bodies

HTTP_201_CREATED == 201

HTTP_204_NO_CONTENT == 204

HTTP_404_NOT_FOUND == 404

HTTP_422_UNPROCESSABLE_ENTITY == 422

\* The database call that raises during a request, if any.
Faults == { "none", "query", "commit", "refresh" }

Call(name, ok) == [ call |-> name, ok |-> ok ]

\* How a handler ends: it returns or raises, with the response the
\* framework makes of it, the committed table, the next identity value and
\* the calls it made on its session.
Outcome(raised, status, body, tbl, nid, log) ==
  [ raised |-> raised, status |-> status, body |-> body, table |-> tbl,
    next_id |-> nid, log |-> log ]

\* A database call raised: the exception leaves the handler.
DbError(tbl, nid, log) ==
  Outcome(TRUE, HTTP_500_INTERNAL_SERVER_ERROR, "Internal Server Error",
          tbl, nid, log)

\* HTTPException(status_code=404, ...)
NotFound(worker_id, tbl, nid, log) ==
  Outcome(TRUE, HTTP_404_NOT_FOUND, [ not_found |-> worker_id ], tbl, nid, log)

\* The request body or query failed validation: the handler never runs.
ValidationError(tbl, nid) ==
  Outcome(TRUE, HTTP_422_UNPROCESSABLE_ENTITY, "ValidationError", tbl, nid,
          << >>)

\* db.query(Worker).filter(Worker.WORKER_ID == worker_id): the rows found.
ById(tbl, worker_id) == { r \in tbl : r.WORKER_ID = worker_id }

RECURSIVE OrderByIdDescending(_)
\* Faulty variant: the rows ordered by falling id.
OrderByIdDescending(rows) ==
  IF rows = {} THEN << >>
  ELSE LET r == CHOOSE x \in rows : \A y \in rows : x.WORKER_ID >= y.WORKER_ID
       IN  << r >> \o OrderByIdDescending(rows \ { r })

RECURSIVE OrderById(_)
\* query.order_by(Worker.WORKER_ID)
OrderById(rows) ==
  IF rows = {} THEN << >>
  ELSE LET r == CHOOSE x \in rows : \A y \in rows : x.WORKER_ID <= y.WORKER_ID
       IN  << r >> \o OrderById(rows \ { r })

\* query.offset(skip).limit(limit)
OffsetLimit(rows, skip, limit) ==
  SubSeq(rows, skip + 1,
         IF skip + limit < Len(rows) THEN skip + limit ELSE Len(rows))

get_workers(tbl, nid, skip, limit, department, fault) ==
  LET filtered == IF department /= ""
                  THEN { r \in tbl : r.DEPARTMENT = department }
                  ELSE tbl
  IN  IF fault = "query"
      THEN DbError(tbl, nid, << Call("query", FALSE) >>)
      ELSE Outcome(FALSE, HTTP_200_OK,
                   OffsetLimit(OrderById(filtered), skip, limit),
                   tbl, nid, << Call("query", TRUE) >>)

get_worker(tbl, nid, worker_id, fault) ==
  IF fault = "query"
  THEN DbError(tbl, nid, << Call("query", FALSE) >>)
  ELSE IF ById(tbl, worker_id) = {}
  THEN NotFound(worker_id, tbl, nid, << Call("query", TRUE) >>)
  ELSE Outcome(FALSE, HTTP_200_OK, CHOOSE r \in ById(tbl, worker_id) : TRUE,
               tbl, nid, << Call("query", TRUE) >>)

\* Faulty variant: a WORKER_ID in the body is taken as the row's id.
create_worker_IdFromBody(tbl, nid, worker, fault) ==
  LET db_worker == Row(IF "WORKER_ID" \in DOMAIN worker
                       THEN worker.WORKER_ID ELSE nid, worker)
      added == << Call("add", TRUE) >>
      stored == tbl \cup { db_worker }
  IN  IF fault = "commit"
      THEN DbError(tbl, nid, added \o << Call("commit", FALSE) >>)
      ELSE IF fault = "refresh"
      THEN DbError(stored, nid + 1,
                   added \o << Call("commit", TRUE), Call("refresh", FALSE) >>)
      ELSE Outcome(FALSE, HTTP_201_CREATED, db_worker, stored, nid + 1,
                   added \o << Call("commit", TRUE), Call("refresh", TRUE) >>)

\* Faulty variant: the new row is given the lowest id no row holds.
create_worker_LowestFreeId(tbl, nid, worker, fault) ==
  LET free == CHOOSE i \in 1..(Cardinality(tbl) + 1) :
                /\ \A r \in tbl : r.WORKER_ID /= i
                /\ \A j \in 1..(i - 1) : \E r \in tbl : r.WORKER_ID = j
      db_worker == Row(free, worker)
      added == << Call("add", TRUE) >>
      stored == tbl \cup { db_worker }
  IN  IF fault = "commit"
      THEN DbError(tbl, nid, added \o << Call("commit", FALSE) >>)
      ELSE IF fault = "refresh"
      THEN DbError(stored, nid + 1,
                   added \o << Call("commit", TRUE), Call("refresh", FALSE) >>)
      ELSE Outcome(FALSE, HTTP_201_CREATED, db_worker, stored, nid + 1,
                   added \o << Call("commit", TRUE), Call("refresh", TRUE) >>)

create_worker(tbl, nid, worker, fault) ==
  LET db_worker == Row(nid, worker)
      added == << Call("add", TRUE) >>
      stored == tbl \cup { db_worker }
  IN  IF fault = "commit"
      THEN DbError(tbl, nid, added \o << Call("commit", FALSE) >>)
      ELSE IF fault = "refresh"
      THEN DbError(stored, nid + 1,
                   added \o << Call("commit", TRUE), Call("refresh", FALSE) >>)
      ELSE Outcome(FALSE, HTTP_201_CREATED, db_worker, stored, nid + 1,
                   added \o << Call("commit", TRUE), Call("refresh", TRUE) >>)

\* Faulty variant: the given fields are set and JOINING_DATE is stamped anew.
SetAttrsStamping(db_worker, values) ==
  [ f \in DOMAIN db_worker |->
      IF f \in DOMAIN values THEN values[f]
      ELSE IF f = "JOINING_DATE" THEN "2025-06-30"
      ELSE db_worker[f] ]

\* `for field, value in update_data.items(): setattr(db_worker, field, value)`
\* for the fields given with a value.
SetAttrs(db_worker, values) ==
  [ f \in DOMAIN db_worker |->
      IF f \in DOMAIN values THEN values[f] ELSE db_worker[f] ]

update_worker(tbl, nid, worker_id, worker, fault) ==
  LET found == << Call("query", TRUE) >> IN
  IF fault = "query"
  THEN DbError(tbl, nid, << Call("query", FALSE) >>)
  ELSE IF ById(tbl, worker_id) = {}
  THEN NotFound(worker_id, tbl, nid, found)
  ELSE LET db_worker == CHOOSE r \in ById(tbl, worker_id) : TRUE
           updated == SetAttrs(db_worker, worker.values)
           stored == (tbl \ { db_worker }) \cup { updated }
       IN  \* commit raises on a database fault and, the columns being
           \* nullable=False, on a field set to None
           IF fault = "commit" \/ worker.nulls /= {}
           THEN DbError(tbl, nid, found \o << Call("commit", FALSE) >>)
           ELSE IF fault = "refresh"
           THEN DbError(stored, nid,
                        found \o << Call("commit", TRUE),
                                    Call("refresh", FALSE) >>)
           ELSE Outcome(FALSE, HTTP_200_OK, updated, stored, nid,
                        found \o << Call("commit", TRUE),
                                    Call("refresh", TRUE) >>)

delete_worker(tbl, nid, worker_id, fault) ==
  LET found == << Call("query", TRUE) >> IN
  IF fault = "query"
  THEN DbError(tbl, nid, << Call("query", FALSE) >>)
  ELSE IF ById(tbl, worker_id) = {}
  THEN NotFound(worker_id, tbl, nid, found)
  ELSE LET db_worker == CHOOSE r \in ById(tbl, worker_id) : TRUE IN
       IF fault = "commit"
       THEN DbError(tbl, nid,
                    found \o << Call("delete", TRUE), Call("commit", FALSE) >>)
       ELSE Outcome(FALSE, HTTP_204_NO_CONTENT, "", tbl \ { db_worker }, nid,
                    found \o << Call("delete", TRUE), Call("commit", TRUE) >>)

\* ----------------------------------------------------- database.py: get_db

\* Faulty variant: get_db without its `except` clause: the session is only closed.
get_db_NoRollback(h) ==
  [ h EXCEPT !.log = << Call("SessionLocal", TRUE) >> \o h.log
                       \o << Call("close", TRUE) >>
                       \o << Call(IF h.raised THEN "raise" ELSE "return", TRUE) >> ]

\* get_db around a request that ended as h: SessionLocal(), the request at
\* the `yield`, `db.rollback()` and `raise` if an exception came back
\* through the yield, `db.close()` in the `finally` on either way out.  The
\* log ends with how the generator is left.
get_db(h) ==
  [ h EXCEPT !.log = << Call("SessionLocal", TRUE) >> \o h.log
                       \o (IF h.raised THEN << Call("rollback", TRUE) >>
                           ELSE << >>)
                       \o << Call("close", TRUE) >>
                       \o << Call(IF h.raised THEN "raise" ELSE "return", TRUE) >> ]

\* -------------------------------------------------- workers.py: the actions

Calls(log, name) == Cardinality({ i \in 1..Len(log) : log[i].call = name })

WorkerIds == 1..MaxWorkers

StoreOps == { "list", "get", "create", "update", "delete" }

InitDB ==
  /\ started = FALSE
  /\ model = None
  /\ scaler = None
  /\ model_columns = None
  /\ loads = 0
  /\ printed = ""
  /\ settings = DefaultSettings
  /\ req = NoRequest
  /\ resp = NoRequest
  /\ calls = << >>
  /\ EmptyStore

\* One request through Depends(get_db): h is how its handler ended.
Serve(request, h) ==
  LET d == get_db(h) IN
  /\ req' = request
  /\ resp' = [ status |-> d.status, body |-> d.body ]
  /\ table' = d.table
  /\ next_id' = d.next_id
  /\ dblog' = d.log
  /\ sessions' = sessions + Calls(d.log, "SessionLocal") - Calls(d.log, "close")
  /\ calls' = << >>
  /\ UNCHANGED mlvars
  /\ UNCHANGED settings

\* GET /workers
GetWorkers ==
  \E skip \in { 0, 1 }, limit \in { 0, 1, 2 },
     department \in { "", "HR" }, fault \in { "none", "query" } :
    Serve([ op |-> "list", skip |-> skip, limit |-> limit,
            department |-> department, fault |-> fault ],
          IF limit >= 1 /\ limit <= 1000
          THEN get_workers(table, next_id, skip, limit, department, fault)
          ELSE ValidationError(table, next_id))

\* GET /workers/{worker_id}
GetWorker ==
  \E worker_id \in WorkerIds, fault \in { "none", "query" } :
    Serve([ op |-> "get", worker_id |-> worker_id, fault |-> fault ],
          get_worker(table, next_id, worker_id, fault))

\* POST /workers
CreateWorker ==
  /\ next_id <= MaxWorkers
  /\ \E worker \in CreateBodies, fault \in { "none", "commit", "refresh" } :
       Serve([ op |-> "create", worker |-> worker, fault |-> fault ],
             IF WorkerCreateValid(worker)
             THEN create_worker(table, next_id, worker, fault)
             ELSE ValidationError(table, next_id))

\* PUT /workers/{worker_id}
UpdateWorker ==
  \E worker_id \in WorkerIds, worker \in UpdateBodies, fault \in Faults :
    Serve([ op |-> "update", worker_id |-> worker_id, worker |-> worker,
            fault |-> fault ],
          IF WorkerUpdateValid(worker)
          THEN update_worker(table, next_id, worker_id, worker, fault)
          ELSE ValidationError(table, next_id))

\* DELETE /workers/{worker_id}
DeleteWorker ==
  \E worker_id \in WorkerIds, fault \in { "none", "query", "commit" } :
    Serve([ op |-> "delete", worker_id |-> worker_id, fault |-> fault ],
          delete_worker(table, next_id, worker_id, fault))

NextDB ==
  \/ GetWorkers
  \/ GetWorker
  \/ CreateWorker
  \/ UpdateWorker
  \/ DeleteWorker

SpecDB == InitDB /\ [][NextDB]_vars

\* ------------------------------------------------ health.py: the handlers

\* What db.execute(text("SELECT 1")).fetchone() does: it returns a row, it
\* returns None, or the execute raises.
Probes == { "row", "no_row", "raises" }

\* `import pyodbc; pyodbc.drivers()` returns the list, or raises.
DriverStates == { "listed", "raises" }

\* settings.ML_MODEL_PATH: no such path, or a directory of so many files.
DirStates == { [ exists |-> FALSE, files |-> 0 ], [ exists |-> TRUE, files |-> 0 ],
               [ exists |-> TRUE, files |-> 3 ] }

\* datetime.utcnow()
Clock == 1..MaxClock

\* Faulty variant: a component at "warning" degrades the overall status too.
detailed_health_check_Escalating(tbl, nid, now, probe, drivers, dir) ==
  LET database == IF probe = "raises"
                  THEN [ status |-> "unhealthy",
                         details |-> "Database connection failed" ]
                  ELSE [ status |-> IF probe = "row" THEN "healthy"
                                    ELSE "unhealthy",
                         details |-> "SQL Server connection successful" ]
      odbc_drivers == [ status |-> IF drivers = "listed" THEN "healthy"
                                   ELSE "warning" ]
      ml_models == [ status |-> IF dir.exists THEN "healthy" ELSE "warning",
                     files |-> dir.files ]
      health_status ==
        [ status |-> IF probe = "raises" \/ drivers = "raises" \/ ~ dir.exists
                     THEN "degraded" ELSE "healthy",
          timestamp |-> now,
          components |-> [ database |-> database,
                           odbc_drivers |-> odbc_drivers,
                           ml_models |-> ml_models ] ]
  IN  Outcome(FALSE, HTTP_200_OK, health_status, tbl, nid,
              << Call("execute", probe /= "raises") >>)

\* detailed_health_check: health_status starts "healthy"; the probe sets
\* the database component from `result`, and only its `except` branch sets
\* the overall status to "degraded"; the driver listing and the model
\* directory set their own component.  The handler returns in every case.
detailed_health_check(tbl, nid, now, probe, drivers, dir) ==
  LET database == IF probe = "raises"
                  THEN [ status |-> "unhealthy",
                         details |-> "Database connection failed" ]
                  ELSE [ status |-> IF probe = "row" THEN "healthy"
                                    ELSE "unhealthy",
                         details |-> "SQL Server connection successful" ]
      odbc_drivers == [ status |-> IF drivers = "listed" THEN "healthy"
                                   ELSE "warning" ]
      ml_models == [ status |-> IF dir.exists THEN "healthy" ELSE "warning",
                     files |-> dir.files ]
      health_status ==
        [ status |-> IF probe = "raises" THEN "degraded" ELSE "healthy",
          timestamp |-> now,
          components |-> [ database |-> database,
                           odbc_drivers |-> odbc_drivers,
                           ml_models |-> ml_models ] ]
  IN  Outcome(FALSE, HTTP_200_OK, health_status, tbl, nid,
              << Call("execute", probe /= "raises") >>)

\* Faulty variant: not ready until the artifacts are loaded.
readiness_check_NeedsModels(now) ==
  IF ModelsLoaded(Globals)
  THEN [ status |-> HTTP_200_OK,
         body |-> [ status |-> "ready", timestamp |-> now ] ]
  ELSE [ status |-> HTTP_503_SERVICE_UNAVAILABLE,
         body |-> [ status |-> "not ready", timestamp |-> now ] ]

readiness_check(now) ==
  [ status |-> HTTP_200_OK,
    body |-> [ status |-> "ready", timestamp |-> now ] ]

liveness_check(now) ==
  [ status |-> HTTP_200_OK,
    body |-> [ status |-> "alive", timestamp |-> now ] ]

\* ------------------------------------------------- health.py: the actions

\* GET /health/detailed, through Depends(get_db)
DetailedHealth ==
  /\ started
  /\ \E now \in Clock, probe \in Probes, drivers \in DriverStates,
        dir \in DirStates :
       Serve([ op |-> "detailed", now |-> now, probe |-> probe,
               drivers |-> drivers, dir |-> dir ],
             detailed_health_check(table, next_id, now, probe, drivers, dir))

\* A handler that takes no session.
Answer(request, response) ==
  /\ req' = request
  /\ resp' = response
  /\ calls' = << >>
  /\ dblog' = << >>
  /\ UNCHANGED << table, next_id, sessions >>
  /\ UNCHANGED mlvars
  /\ UNCHANGED settings

\* GET /health/ready
Readiness ==
  /\ started
  /\ \E now \in Clock :
       Answer([ op |-> "ready", now |-> now ], readiness_check(now))

\* GET /health/live
Liveness ==
  /\ started
  /\ \E now \in Clock :
       Answer([ op |-> "live", now |-> now ], liveness_check(now))

\* The health endpoints of a service whose artifacts are loaded, reloaded
\* or missing.
NextHealth ==
  \/ ModuleImport
  \/ ReloadModels
  \/ DetailedHealth
  \/ Readiness
  \/ Liveness

SpecHealth == InitML /\ [][NextHealth]_vars

\* ------------------------------------------------- claims on the scoring

\* The last request was a scoring request of the given kind.
Served(op) == req.op = op

\* Item i of the last request fails: a listed column is missing from every
\* transaction, or the scaler or the classifier raises on its row.
ItemFails(i) ==
  \/ \E c \in Range(model_columns.cols) : c \notin DOMAIN req.txns[i]
  \/ req.outs[i].scaler = "raises"
  \/ req.outs[i].predict = "raises"

Positions == [ i \in 1..Len(req.txns) |-> i ]

FailedPositions == SelectSeq(Positions, ItemFails)

ScoredPositions == SelectSeq(Positions, LAMBDA i : ~ ItemFails(i))

\* C1: a non-empty batch served with the artifacts loaded answers 200 with
\* total = succeeded + failed = the length of the input.
C1_BatchTotals ==
  (Served("batch") /\ ModelsLoaded(Globals) /\ req.txns /= << >>) =>
    /\ resp.status = HTTP_200_OK
    /\ resp.body.total_transactions = Len(req.txns)
    /\ resp.body.successful_predictions + resp.body.failed_predictions
         = resp.body.total_transactions
    /\ resp.body.successful_predictions = Len(resp.body.results)
    /\ resp.body.failed_predictions = Len(resp.body.errors)

\* C1 witness: a batch with a success and a failure.
C1_MixedBatch ==
  /\ Served("batch")
  /\ resp.status = HTTP_200_OK
  /\ resp.body.successful_predictions > 0
  /\ resp.body.failed_predictions > 0

\* C2: the batch is split by outcome in input order: the k-th result is the
\* prediction of the k-th item that scored, the k-th error carries the
\* zero-based position and the transaction_id of the k-th item that failed.
C2_BatchPartition ==
  (Served("batch") /\ resp.status = HTTP_200_OK) =>
    /\ Len(resp.body.results) = Len(ScoredPositions)
    /\ Len(resp.body.errors) = Len(FailedPositions)
    /\ \A k \in 1..Len(ScoredPositions) :
         LET i == ScoredPositions[k] IN
         /\ resp.body.results[k].transaction_id = req.txns[i]["transaction_id"]
         /\ resp.body.results[k].customer_id = req.txns[i]["customer_id"]
         /\ resp.body.results[k].fraud_prediction = req.outs[i].pred
    /\ \A k \in 1..Len(FailedPositions) :
         LET i == FailedPositions[k] IN
         /\ resp.body.errors[k].transaction_index = i - 1
         /\ resp.body.errors[k].transaction_id = req.txns[i]["transaction_id"]

\* C2 witness: the first item failed and a later one was scored.
C2_ScoredAfterFailure ==
  /\ Served("batch")
  /\ resp.status = HTTP_200_OK
  /\ Len(resp.body.errors) > 0
  /\ resp.body.errors[1].transaction_index = 0
  /\ Len(resp.body.results) > 0

\* C3 as stated: an empty batch answers 400 whatever the artifact state.
C3_EmptyBatchAlways400 ==
  (Served("batch") /\ req.txns = << >>) =>
    (resp.status = HTTP_400_BAD_REQUEST /\ calls = << >>)

\* C3 amended: an empty batch calls neither the scaler nor the classifier;
\* it answers 400 when the artifacts are loaded and 503 when they are not.
C3_EmptyBatch ==
  (Served("batch") /\ req.txns = << >>) =>
    /\ calls = << >>
    /\ resp.status = IF ModelsLoaded(Globals)
                     THEN HTTP_400_BAD_REQUEST
                     ELSE HTTP_503_SERVICE_UNAVAILABLE

\* C3 witness: an empty batch answered 400.
C3_EmptyBatchRejected ==
  /\ Served("batch")
  /\ req.txns = << >>
  /\ ModelsLoaded(Globals)
  /\ resp.status = HTTP_400_BAD_REQUEST

\* C4: with any of the three globals None, score and scoreBatch answer 503
\* with no result, no error list and no artifact call.
C4_UnloadedIs503 ==
  ((Served("score") \/ Served("batch")) /\ ~ ModelsLoaded(Globals)) =>
    /\ resp.status = HTTP_503_SERVICE_UNAVAILABLE
    /\ resp.body = ModelsNotLoaded.body
    /\ calls = << >>

\* C4 witness: a non-empty batch refused while only the classifier is set.
C4_PartlyLoadedRefused ==
  /\ Served("batch")
  /\ req.txns /= << >>
  /\ model /= None
  /\ scaler = None
  /\ resp.status = HTTP_503_SERVICE_UNAVAILABLE

\* C6: score with the artifacts loaded: if the column list names columns the
\* transaction lacks, the answer is 500 reporting exactly those names and no
\* artifact is called; otherwise the scaler gets the values in list order.
C6_SchemaCheck ==
  (Served("score") /\ ModelsLoaded(Globals)) =>
    LET cols == model_columns.cols
        flat == req.txns[1]
        absent == { c \in Range(cols) : c \notin DOMAIN flat }
    IN  IF absent /= {}
        THEN /\ resp.status = HTTP_500_INTERNAL_SERVER_ERROR
             /\ resp.body.cause.error = "Missing required columns"
             /\ Range(resp.body.cause.columns) = absent
             /\ calls = << >>
        ELSE /\ Len(calls) > 0
             /\ calls[1].fn = "scaler.transform"
             /\ Len(calls[1].arg) = Len(cols)
             /\ \A k \in 1..Len(cols) : calls[1].arg[k] = flat[cols[k]]

\* C6 witness: a score refused for its missing columns.
C6_MissingReported ==
  /\ Served("score")
  /\ resp.status = HTTP_500_INTERNAL_SERVER_ERROR
  /\ resp.body.cause.error = "Missing required columns"
  /\ Len(resp.body.cause.columns) = 2

\* C6 second case reached: a score whose row went to the scaler.
C6_RowScaled ==
  /\ Served("score")
  /\ resp.status = HTTP_200_OK
  /\ Len(calls) > 0

\* The last load_fraud_models did not succeed.
LoadFailed == loads > 0 /\ printed /= "loaded"

\* C7 as stated: a load that does not succeed leaves the three globals as
\* they were before the call.
C7_FailedLoadKeepsGlobals ==
  [][ (loads' = loads + 1 /\ printed' /= "loaded") =>
        (model' = model /\ scaler' = scaler
           /\ model_columns' = model_columns) ]_vars

\* C8 as stated: a reload whose load did not succeed reports success = false.
C8_FailedReloadReportsFailure ==
  (Served("reload") /\ LoadFailed) => resp.body.success = FALSE

\* C9 as stated: every scoring uses a classifier, a scaler and a column
\* list that come from the same load.
C9_OneLoadPerScoring ==
  (Served("score") \/ Served("batch")) =>
    \A k \in 1..Len(calls) : calls[k].by = calls[k].columns_by

\* C5: score labels the probability by closed-open bands: the high label
\* iff prob >= high, the moderate label iff low <= prob < high, the normal
\* label iff prob < low.
C5_TierBands ==
  (Served("score") /\ resp.status = HTTP_200_OK) =>
    LET p == req.outs[1].prob
        label == resp.body.risk_level
    IN  /\ (label = FRAUD_RISK_HIGH_LABEL) <=> (p >= settings.high)
        /\ (label = FRAUD_RISK_MODERATE_LABEL)
             <=> (settings.low <= p /\ p < settings.high)
        /\ (label = FRAUD_RISK_NORMAL_LABEL) <=> (p < settings.low)

\* C5 witness: a probability equal to the low threshold, labelled moderate.
C5_AtLowThreshold ==
  /\ Served("score")
  /\ resp.status = HTTP_200_OK
  /\ req.outs[1].prob = settings.low
  /\ resp.body.risk_level = FRAUD_RISK_MODERATE_LABEL

\* --------------------------------------------------- claims on the store

\* The last request was a store request.
StoreServed == req.op \in StoreOps

\* The request ended with an exception thrown into get_db.
Raised == dblog[Len(dblog)].call = "raise"

\* The request committed.
Committed == \E i \in 1..Len(dblog) : dblog[i] = Call("commit", TRUE)

\* One session was opened, first, and closed, as the last call on it.
SessionScoped ==
  /\ Calls(dblog, "SessionLocal") = 1
  /\ dblog[1].call = "SessionLocal"
  /\ Calls(dblog, "close") = 1
  /\ dblog[Len(dblog) - 1].call = "close"
  /\ sessions = 0

\* rollback, then close, then the exception leaves get_db.
RolledBackThenClosed ==
  \E i, j \in 1..Len(dblog) :
    /\ i < j
    /\ j < Len(dblog)
    /\ dblog[i].call = "rollback"
    /\ dblog[j].call = "close"

\* C10: every store request opens one session and closes it on every way
\* out; a request that raises is rolled back before the session is closed
\* and before the exception leaves get_db, and unless it had committed it
\* leaves the table as it found it.
C10_SessionReleased ==
  [][ StoreServed' =>
        /\ SessionScoped'
        /\ Raised' <=> (resp'.status >= HTTP_400_BAD_REQUEST)
        /\ Raised' => RolledBackThenClosed'
        /\ (Raised' /\ ~ Committed') => (table' = table /\ next_id' = next_id)
    ]_vars

\* C10 witness: an update whose commit raised, rolled back and closed.
C10_FailedUpdateRolledBack ==
  /\ req.op = "update"
  /\ resp.status = HTTP_500_INTERNAL_SERVER_ERROR
  /\ \E i \in 1..Len(dblog) : dblog[i] = Call("commit", FALSE)
  /\ RolledBackThenClosed
  /\ sessions = 0
  /\ table /= {}

\* ------------------------------------------------ claims on GET /workers

\* The workers a list request with this department argument selects from.
Filtered(department) ==
  IF department = "" THEN table
  ELSE { r \in table : r.DEPARTMENT = department }

\* The place of a row among the selected rows, counted by ascending id.
RankIn(rows, r) ==
  Cardinality({ x \in rows : x.WORKER_ID < r.WORKER_ID }) + 1

\* The body is the rows of ranks skip + 1 .. skip + limit, in that order.
IsPage(body, rows, skip, limit) ==
  LET left == IF Cardinality(rows) > skip THEN Cardinality(rows) - skip ELSE 0
  IN  /\ Len(body) = (IF limit < left THEN limit ELSE left)
      /\ \A k \in 1..Len(body) :
            body[k] \in rows /\ RankIn(rows, body[k]) = skip + k

RECURSIVE Pages(_, _, _)
\* The bodies of the list requests skip = 0, limit, 2 * limit, ... up to
\* page n, one after the other.
Pages(n, limit, department) ==
  IF n < 0 THEN << >>
  ELSE Pages(n - 1, limit, department)
         \o get_workers(table, next_id, n * limit, limit, department,
                        "none").body

\* C11: a list request that is answered returns the rows of ranks
\* skip + 1 .. skip + limit of the selected workers by ascending id (which
\* fixes the answer for given arguments and table), and the consecutive
\* pages of any limit hold every selected row once, in ascending order.
C11_ListPages ==
  /\ (req.op = "list" /\ resp.status = HTTP_200_OK) =>
        IsPage(resp.body, Filtered(req.department), req.skip, req.limit)
  /\ \A limit \in 1..(MaxWorkers + 1), department \in { "", "HR", "IT" } :
        LET all == Pages(MaxWorkers + 1, limit, department)
            rows == Filtered(department)
        IN  /\ Len(all) = Cardinality(rows)
            /\ \A k \in 1..Len(all) :
                  all[k] \in rows /\ RankIn(rows, all[k]) = k

\* C11 witness: the second page of one row, of a table of two rows.
C11_SecondPage ==
  /\ req.op = "list"
  /\ req.skip = 1
  /\ req.limit = 1
  /\ req.department = ""
  /\ Cardinality(table) = 2
  /\ resp.status = HTTP_200_OK
  /\ Len(resp.body) = 1
  /\ resp.body[1].WORKER_ID = 2

\* ------------------------------------------ claims on PUT /workers/{id}

\* C12: an update that is answered 200 found a row of that id, leaves that
\* row with the given fields set to the given values and every other field,
\* the id included, as it was, returns that row, and leaves every other row
\* and the identity counter alone.
C12_UpdateFrame ==
  [][ (req'.op = "update" /\ resp'.status = HTTP_200_OK) =>
        LET id == req'.worker_id
            given == req'.worker.values
        IN  /\ Cardinality(ById(table, id)) = 1
            /\ Cardinality(ById(table', id)) = 1
            /\ table' \ ById(table', id) = table \ ById(table, id)
            /\ next_id' = next_id
            /\ \A old \in ById(table, id), new \in ById(table', id) :
                  /\ resp'.body = new
                  /\ \A f \in WorkerFields \cup { "WORKER_ID" } :
                        new[f] = (IF f \in DOMAIN given THEN given[f]
                                  ELSE old[f])
    ]_vars

\* C12 witness: only DEPARTMENT given, for one of two rows; the row comes
\* back in the new department with its other fields as created.
C12_DepartmentOnly ==
  /\ req.op = "update"
  /\ DOMAIN req.worker.values = { "DEPARTMENT" }
  /\ resp.status = HTTP_200_OK
  /\ Cardinality(table) = 2
  /\ resp.body.DEPARTMENT = "IT"
  /\ resp.body.FIRST_NAME = "Ann"
  /\ resp.body.SALARY = 50000
  /\ \E r \in table : r.WORKER_ID /= req.worker_id /\ r.DEPARTMENT = "HR"

\* --------------------------------------- claims on DELETE /workers/{id}

\* The ids the table has given out.
Assigned == 1..(next_id - 1)

\* No row holds the id.
Absent(tbl, id) == ById(tbl, id) = {}

\* C13: a delete, get or update of an id no row holds is never answered
\* with success, is answered 404 unless the query itself raises, and leaves
\* the table alone; a delete answered 204 removes the one row of that id
\* and no other; and an id the table gave out and no row holds is held by
\* no row after any request (ids are not given out twice).
C13_DeleteForGood ==
  [][ /\ (req'.op \in { "get", "update", "delete" }
            /\ Absent(table, req'.worker_id)) =>
           /\ table' = table
           /\ resp'.status >= HTTP_400_BAD_REQUEST
           /\ (req'.fault /= "query"
                 /\ (req'.op = "update" => WorkerUpdateValid(req'.worker)))
                => resp'.status = HTTP_404_NOT_FOUND
      /\ (req'.op = "delete" /\ resp'.status = HTTP_204_NO_CONTENT) =>
           /\ Cardinality(ById(table, req'.worker_id)) = 1
           /\ table' = table \ ById(table, req'.worker_id)
      /\ \A id \in Assigned : Absent(table, id) => Absent(table', id)
    ]_vars

\* C13 witness: a get of id 1 answered 404 after row 1 was deleted and a
\* later create was given id 2.
C13_GetAfterDelete ==
  /\ req.op = "get"
  /\ req.worker_id = 1
  /\ resp.status = HTTP_404_NOT_FOUND
  /\ next_id = 3
  /\ { r.WORKER_ID : r \in table } = { 2 }

\* ---------------------------------------------- claims on POST /workers

\* A create body breaks a rule of the claim: a salary that is not positive,
\* or a name or department that is empty or longer than 255 characters.
BreaksFieldRule(worker) ==
  \/ worker.SALARY <= 0
  \/ \E f \in { "FIRST_NAME", "LAST_NAME", "DEPARTMENT" } :
        Len(worker[f]) = 0 \/ Len(worker[f]) > 255

\* C14: a create whose body breaks a field rule is answered 422 without an
\* add or a commit on the session, and the table and the identity counter
\* are after it what they were before; a body that breaks none is not
\* refused.
C14_InvalidCreateRejected ==
  [][ req'.op = "create" =>
        IF BreaksFieldRule(req'.worker)
        THEN /\ resp'.status = HTTP_422_UNPROCESSABLE_ENTITY
             /\ table' = table
             /\ next_id' = next_id
             /\ Calls(dblog', "add") = 0
             /\ Calls(dblog', "commit") = 0
        ELSE resp'.status /= HTTP_422_UNPROCESSABLE_ENTITY
    ]_vars

\* C14 witness: a create with salary 0 refused while the table holds a row.
C14_SalaryZeroRefused ==
  /\ req.op = "create"
  /\ req.worker.SALARY = 0
  /\ resp.status = HTTP_422_UNPROCESSABLE_ENTITY
  /\ Cardinality(table) = 1

\* A create with a department of 256 characters refused.
C14_TooLongRefused ==
  /\ req.op = "create"
  /\ Len(req.worker.DEPARTMENT) = 256
  /\ resp.status = HTTP_422_UNPROCESSABLE_ENTITY

\* A create with a name of 255 characters stored.
C14_LongestStored ==
  /\ req.op = "create"
  /\ resp.status = HTTP_201_CREATED
  /\ \E r \in table : Len(r.FIRST_NAME) = 255

\* ------------------------------------------------- claims on worker ids

Ids(tbl) == { r.WORKER_ID : r \in tbl }

\* C15: no two rows of the table share an id, every id in the table is one
\* the table gave out, and a create answered 201 adds one row whose id, the
\* one it returns, was held by no row before, whatever id the body names.
C15_FreshIds ==
  [][ /\ Cardinality(Ids(table')) = Cardinality(table')
      /\ Ids(table') \subseteq 1..(next_id' - 1)
      /\ (req'.op = "create" /\ resp'.status = HTTP_201_CREATED) =>
           /\ resp'.body.WORKER_ID \notin Ids(table)
           /\ resp'.body.WORKER_ID = next_id
           /\ table' = table \cup { resp'.body }
           /\ Cardinality(table') = Cardinality(table) + 1
    ]_vars

\* C15 witness: a create whose body names id 1, answered with id 2 while
\* row 1 is in the table.
C15_BodyIdIgnored ==
  /\ req.op = "create"
  /\ "WORKER_ID" \in DOMAIN req.worker
  /\ req.worker.WORKER_ID = 1
  /\ resp.status = HTTP_201_CREATED
  /\ resp.body.WORKER_ID = 2
  /\ Ids(table) = { 1, 2 }

\* ------------------------------------------- claims on the health endpoints

C16_WarningOnly ==
  /\ req.op = "detailed"
  /\ req.probe = "row"
  /\ req.drivers = "raises"
  /\ resp.body.status = "healthy"
  /\ resp.body.components.odbc_drivers.status = "warning"

\* C17: a liveness request is answered 200 "alive" and a readiness request
\* 200 "ready", each with the time of the request and nothing else, in
\* whatever state the artifacts and the table are; neither opens a session
\* nor calls an artifact nor changes the globals or the table.
C17_AlwaysAliveAndReady ==
  [][ /\ req'.op = "live" =>
           resp' = [ status |-> HTTP_200_OK,
                     body |-> [ status |-> "alive", timestamp |-> req'.now ] ]
      /\ req'.op = "ready" =>
           resp' = [ status |-> HTTP_200_OK,
                     body |-> [ status |-> "ready", timestamp |-> req'.now ] ]
      /\ req'.op \in { "live", "ready" } =>
           /\ dblog' = << >>
           /\ calls' = << >>
           /\ sessions' = sessions
           /\ table' = table
           /\ mlvars' = mlvars
    ]_vars

\* C17 witness: ready while the artifact set is only partly loaded.
C17_ReadyWhilePartlyLoaded ==
  /\ req.op = "ready"
  /\ resp.body.status = "ready"
  /\ model /= None
  /\ model_columns = None

\* Alive after a reload that failed.
C17_AliveAfterFailedReload ==
  /\ req.op = "live"
  /\ resp.body.status = "alive"
  /\ loads = 2
  /\ printed /= "loaded"

\* C19 as stated: in a detailed health response the overall status is
\* "degraded" whenever the database component is "unhealthy", and "healthy"
\* only when the database component is "healthy".
C19_StatusFollowsDatabase ==
  req.op = "detailed" =>
    /\ resp.body.components.database.status = "unhealthy"
         => resp.body.status = "degraded"
    /\ resp.body.status = "healthy"
         => resp.body.components.database.status = "healthy"

\* ------------------------------------- claims on the returned probability

\* C18 as stated: in a score answered 200 the risk_level is the label the
\* bands give to the returned fraud_probability, the value rounded to four
\* decimals.
C18_TierOfReturnedProbability ==
  (Served("score") /\ resp.status = HTTP_200_OK) =>
    LET p == resp.body.fraud_probability
        label == resp.body.risk_level
    IN  /\ (label = FRAUD_RISK_HIGH_LABEL) <=> (p >= settings.high)
        /\ (label = FRAUD_RISK_MODERATE_LABEL)
             <=> (settings.low <= p /\ p < settings.high)
        /\ (label = FRAUD_RISK_NORMAL_LABEL) <=> (p < settings.low)

\* --------------------------------------------- claims on the stored rows

\* A row as the claim wants every stored row: names and department of 1 to
\* 255 characters, a joining date, a positive salary.
RowValid(r) ==
  /\ \A f \in { "FIRST_NAME", "LAST_NAME", "DEPARTMENT" } :
        Len(r[f]) >= 1 /\ Len(r[f]) <= 255
  /\ r.JOINING_DATE /= ""
  /\ r.SALARY > 0

\* C20 as stated: after every request every stored row is valid, and an
\* update that is refused or that faults leaves the row of its id as it
\* was.
C20_RowsValidAndFailedUpdateInert ==
  [][ /\ \A r \in table' : RowValid(r)
      /\ (req'.op = "update" /\ resp'.status >= HTTP_400_BAD_REQUEST) =>
           ById(table', req'.worker_id) = ById(table, req'.worker_id)
    ]_vars

=============================================================================
